---- MODULE Spec2Model ----
(***************************************************************************)
(* Model of src/src/modules/src/sensors_task.c (Crazyflie 2.0 sensor       *)
(* acquisition task): the interrupt-driven acquisition loop, the decoders, *)
(* the gyro-bias / accelerometer-scale calibration, the four one-slot      *)
(* publication queues with their readers, and the self-test orchestrator.  *)
(*                                                                         *)
(* Number encodings.  TLC has 32-bit integers and no floats, so:           *)
(*  - a 64-bit accumulator is a pair <<hi, lo>> = hi * 2^20 + lo;          *)
(*  - (float)n of an integer n is F32Int / F32W: n rounded to 24           *)
(*    significant bits, ties to even, as IEEE-754 single does;             *)
(*  - gyroBias is kept in units of 1/1024 LSB (the division by             *)
(*    IMU_SENSOR_BIAS_SAMPLES, a power of two, is exact in a float);       *)
(*  - gyroBiasStdDev is kept as the argument of sqrtf, in 2^-20 LSB^2:     *)
(*    a signed wide number; sqrtf(v) is 0 iff v is 0 and NaN iff v < 0;    *)
(*  - accScaleSum is kept in units of IMU_G_PER_LSB_CFG, accScale and the  *)
(*    accelerometer sample as fractions [num, den, unit];                  *)
(*  - gyro samples are in 1/1024 LSB, times IMU_DEG_PER_LSB_CFG; magneto-  *)
(*    meter samples in LSB, over MAG_GAUSS_PER_LSB; barometer samples as   *)
(*    the raw pressure and temperature words they are computed from.       *)
(***************************************************************************)
EXTENDS Integers, Sequences, FiniteSets, TLC

(***************************************************************************)
(* Program constants                                                       *)
(***************************************************************************)
IMU_SENSOR_BIAS_SAMPLES == 1024
MPU6500_BUFF_LEN == 14
MAG_BUFF_LEN == 8
BARO_BUFF_LEN == 6
\* for (int i=0; i<300; i++) in sensorsTest
SELF_TEST_ATTEMPTS == 300
\* (1 << AK8963_ST1_DRDY_BIT), bit 0 of the ST1 register
AK8963_ST1_DRDY_MASK == 1
\* buffer[0] & 0x02: new pressure; buffer[0] & 0x01: new temperature
BARO_PRESSURE_MASK == 2
BARO_TEMP_MASK == 1

(***************************************************************************)
(* Bounds of the model                                                     *)
(***************************************************************************)
\* data-ready interrupts that fire in the concurrent specification
MaxInterrupts == 3
\* frames of the calibration harness that differ from the base frame
MaxDeviations == 1
\* frames fed to the calibration harness after the 1024th
MaxExtraFrames == 2

(***************************************************************************)
(* Integer helpers                                                         *)
(***************************************************************************)
Abs(n) == IF n < 0 THEN -n ELSE n

Pow2(n) == 2 ^ n

\* number of significant bits of n >= 0
RECURSIVE BitLen(_)
BitLen(n) == IF n = 0 THEN 0 ELSE 1 + BitLen(n \div 2)

BitSet(byte, mask) == (byte \div mask) % 2 = 1

\* conversion of an int in 0..65535 to int16_t (wraps modulo 2^16)
ToInt16(v) == IF v >= 32768 THEN v - 65536 ELSE v

\* (((int16_t) hi) << 8) | lo, assigned to an int16_t
Int16BE(hi, lo) == ToInt16(hi * 256 + lo)

\* round q (with remainder r out of 2^s) to nearest, ties to even
RoundHalfEven(q, r, s) ==
  IF s = 0 THEN q
  ELSE LET half == Pow2(s - 1)
       IN IF r > half \/ (r = half /\ q % 2 = 1) THEN q + 1 ELSE q

\* (float) n for an int n with |n| < 2^31 - 2^7, as an exact integer
F32Int(n) ==
  LET a == Abs(n)
      s == IF BitLen(a) > 24 THEN BitLen(a) - 24 ELSE 0
      q == RoundHalfEven(a \div Pow2(s), a % Pow2(s), s)
  IN (IF n < 0 THEN -1 ELSE 1) * q * Pow2(s)

(***************************************************************************)
(* Wide (64-bit) non-negative numbers <<hi, lo>> = hi * 2^20 + lo          *)
(***************************************************************************)
WBase == 2 ^ 20

WZero == <<0, 0>>

WNorm(hi, lo) == <<hi + (lo \div WBase), lo % WBase>>

\* w + n for 0 <= n < 2^31 - 2^20
WAdd(w, n) == WNorm(w[1], w[2] + n)

WLess(a, b) == a[1] < b[1] \/ (a[1] = b[1] /\ a[2] < b[2])

WBitLen(w) == IF w[1] = 0 THEN BitLen(w[2]) ELSE 20 + BitLen(w[1])

\* w * 2^k, 0 <= k <= 10
WShl(w, k) == WNorm((w[1] * Pow2(k)) + (w[2] \div Pow2(20 - k)),
                    (w[2] % Pow2(20 - k)) * Pow2(k))

\* a * a for 0 <= a < 2^26, by 13-bit halves
WSquare(a) ==
  LET a1 == a \div 8192
      a0 == a % 8192
      mid == 2 * a1 * a0
      low == a0 * a0
  IN WNorm((a1 * a1 * 64) + (mid \div 128) + (low \div WBase),
           ((mid % 128) * 8192) + (low % WBase))

\* a - b for a >= b
WSubAbs(a, b) ==
  IF a[2] >= b[2] THEN <<a[1] - b[1], a[2] - b[2]>>
  ELSE <<a[1] - b[1] - 1, a[2] + WBase - b[2]>>

\* (float) w, as an exact wide number
F32W(w) ==
  LET bl == WBitLen(w)
      s == IF bl > 24 THEN bl - 24 ELSE 0
  IN IF s = 0 THEN w
     ELSE IF s <= 20
       THEN LET q == (w[1] * Pow2(20 - s)) + (w[2] \div Pow2(s))
                r == w[2] % Pow2(s)
                q1 == RoundHalfEven(q, r, s)
            IN WNorm(q1 \div Pow2(20 - s), (q1 % Pow2(20 - s)) * Pow2(s))
       ELSE LET q == w[1] \div Pow2(s - 20)
                rh == w[1] % Pow2(s - 20)
                half == Pow2(s - 21)
                up == rh > half \/ (rh = half /\ (w[2] > 0 \/ q % 2 = 1))
                q1 == IF up THEN q + 1 ELSE q
            IN <<q1 * Pow2(s - 20), 0>>

\* signed difference a - b of two wide numbers: [neg, mag]
WDiff(a, b) ==
  IF WLess(a, b) THEN [neg |-> TRUE, mag |-> WSubAbs(b, a)]
  ELSE [neg |-> FALSE, mag |-> WSubAbs(a, b)]

\* integer square root of n >= 0 (floor), by bisection on lo..hi
RECURSIVE IsqrtIn(_, _, _)
IsqrtIn(n, lo, hi) ==
  IF lo >= hi THEN lo
  ELSE LET mid == (lo + hi + 1) \div 2
       IN IF mid * mid <= n THEN IsqrtIn(n, mid, hi) ELSE IsqrtIn(n, lo, mid - 1)

Isqrt(n) == IsqrtIn(n, 0, 46340)

(***************************************************************************)
(* State                                                                   *)
(***************************************************************************)
VARIABLES
  \* module state of sensors_task.c
  isInit, isMagnetometerPresent, isBarometerPresent,
  sensorsDataReady, buffer, sensors,
  gyroBias, gyroBiasSampleSum, gyroBiasSampleSumSquares, gyroBiasStdDev,
  accScaleSum, accScale, sensorBiasSampleCount, sensorBiasFound,
  rawPressure, rawTemp,
  queue,
  isMpu6500TestPassed, isAK8963TestPassed, isLPS25HTestPassed,
  \* the acquisition task, the scheduler and the reader task
  taskPc, schedulerSuspended, readerPc, readerSensors,
  \* sensorsTest: its position and locals
  testPc, testI, mpu6500SelfTestPassed, testStatus, testResult,
  \* history variables (not program state)
  interrupts, cycle, published, pubCount, lastPub, got, rd,
  framesProcessed, baseFrame, deviations, firstGyro, gyroConstant,
  lastOutcome, attempts, delays, magCalls, baroCalls, magOutcome, baroOutcome,
  busRead, signal

calVars == <<gyroBias, gyroBiasSampleSum, gyroBiasSampleSumSquares,
             gyroBiasStdDev, accScaleSum, accScale, sensorBiasSampleCount,
             sensorBiasFound>>

decVars == <<buffer, sensors, rawPressure, rawTemp>>

flagVars == <<isInit, isMagnetometerPresent, isBarometerPresent>>

taskVars == <<sensorsDataReady, queue, taskPc, schedulerSuspended,
              interrupts, cycle, published, pubCount, lastPub, signal>>

readerVars == <<readerPc, readerSensors, got, rd>>

testVars == <<isMpu6500TestPassed, isAK8963TestPassed, isLPS25HTestPassed,
              testPc, testI, mpu6500SelfTestPassed, testStatus, testResult,
              lastOutcome, attempts, delays, magCalls, baroCalls,
              magOutcome, baroOutcome>>

harnessVars == <<framesProcessed, baseFrame, deviations, firstGyro,
                 gyroConstant, busRead>>

vars == <<flagVars, calVars, decVars, taskVars, readerVars, testVars,
          harnessVars>>

(***************************************************************************)
(* Raw frames: what the bus delivers                                       *)
(***************************************************************************)
U16(v) == IF v < 0 THEN v + 65536 ELSE v
HiByte(v) == U16(v) \div 256
LoByte(v) == U16(v) % 256

\* The 14-byte inertial block in device order: ACCEL_XOUT, ACCEL_YOUT,
\* ACCEL_ZOUT, TEMP_OUT, GYRO_XOUT, GYRO_YOUT, GYRO_ZOUT, big-endian; the
\* device's x is the firmware's y and vice versa.
InertialBlock(ax, ay, az, gx, gy, gz) ==
  <<HiByte(ay), LoByte(ay), HiByte(ax), LoByte(ax), HiByte(az), LoByte(az),
    0, 0,
    HiByte(gy), LoByte(gy), HiByte(gx), LoByte(gx), HiByte(gz), LoByte(gz)>>

\* ST1, HXL, HXH, HYL, HYH, HZL, HZH, ST2 of the AK8963, little-endian
MagBlock(st1, hx, hy, hz) ==
  <<st1, LoByte(hx), HiByte(hx), LoByte(hy), HiByte(hy), LoByte(hz),
    HiByte(hz), 0>>

\* STATUS_REG, PRESS_OUT_XL, PRESS_OUT_L, PRESS_OUT_H, TEMP_OUT_L, TEMP_OUT_H
BaroBlock(status, p, t) ==
  <<status, p % 256, (p \div 256) % 256, (p \div 65536) % 256,
    LoByte(t), HiByte(t)>>

ZeroBuffer == [i \in 1..(MPU6500_BUFF_LEN + MAG_BUFF_LEN + BARO_BUFF_LEN) |-> 0]

\* buffer[off + k] of the C code (0-based) is buf[off + k + 1]
At(buf, off, k) == buf[off + k + 1]

ZeroAxis3 == [x |-> 0, y |-> 0, z |-> 0]

ZeroSensors ==
  [acc |-> [x |-> 0, y |-> 0, z |-> 0, den |-> 1, unit |-> "g"],
   gyro |-> ZeroAxis3,
   mag |-> ZeroAxis3,
   baro |-> [pressure |-> 0, temperature |-> 0, asl |-> 0]]

(***************************************************************************)
(* Measurement decoders                                                    *)
(***************************************************************************)
\* a variant of the barometer decoder whose two status masks are exchanged
processBarometerMeasurements_SwappedBits(buf, off) ==
  LET p == IF BitSet(At(buf, off, 0), BARO_TEMP_MASK)
           THEN At(buf, off, 3) * 65536 + At(buf, off, 2) * 256 + At(buf, off, 1)
           ELSE rawPressure
      t == IF BitSet(At(buf, off, 0), BARO_PRESSURE_MASK)
           THEN ToInt16(At(buf, off, 5) * 256 + At(buf, off, 4))
           ELSE rawTemp
  IN [rawPressure |-> p, rawTemp |-> t,
      baro |-> [pressure |-> p, temperature |-> t, asl |-> p]]

\* processBarometerMeasurements: the new rawPressure, rawTemp and sample
processBarometerMeasurements(buf, off) ==
  LET p == IF BitSet(At(buf, off, 0), BARO_PRESSURE_MASK)
           THEN At(buf, off, 3) * 65536 + At(buf, off, 2) * 256 + At(buf, off, 1)
           ELSE rawPressure
      t == IF BitSet(At(buf, off, 0), BARO_TEMP_MASK)
           THEN ToInt16(At(buf, off, 5) * 256 + At(buf, off, 4))
           ELSE rawTemp
  IN [rawPressure |-> p, rawTemp |-> t,
      baro |-> [pressure |-> p, temperature |-> t, asl |-> p]]

\* a variant of the magnetometer decoder that does not test the data-ready bit
processMagnetometerMeasurements_NoReadyTest(buf, off) ==
  [x |-> ToInt16(At(buf, off, 2) * 256 + At(buf, off, 1)),
   y |-> ToInt16(At(buf, off, 4) * 256 + At(buf, off, 3)),
   z |-> ToInt16(At(buf, off, 6) * 256 + At(buf, off, 5))]

\* processMagnetometerMeasurements: the new sensors.mag
processMagnetometerMeasurements(buf, off) ==
  IF BitSet(At(buf, off, 0), AK8963_ST1_DRDY_MASK)
  THEN [x |-> ToInt16(At(buf, off, 2) * 256 + At(buf, off, 1)),
        y |-> ToInt16(At(buf, off, 4) * 256 + At(buf, off, 3)),
        z |-> ToInt16(At(buf, off, 6) * 256 + At(buf, off, 5))]
  ELSE sensors.mag

\* the six raw words of the inertial block, axes swapped as in the code
InertialWords(buf) ==
  [ay |-> Int16BE(At(buf, 0, 0), At(buf, 0, 1)),
   ax |-> Int16BE(At(buf, 0, 2), At(buf, 0, 3)),
   az |-> Int16BE(At(buf, 0, 4), At(buf, 0, 5)),
   gy |-> Int16BE(At(buf, 0, 8), At(buf, 0, 9)),
   gx |-> Int16BE(At(buf, 0, 10), At(buf, 0, 11)),
   gz |-> Int16BE(At(buf, 0, 12), At(buf, 0, 13))]

(***************************************************************************)
(* Calibration engine and inertial decoder: processAccGyroMeasurements     *)
(***************************************************************************)
CalState ==
  [gyroBias |-> gyroBias,
   gyroBiasSampleSum |-> gyroBiasSampleSum,
   gyroBiasSampleSumSquares |-> gyroBiasSampleSumSquares,
   gyroBiasStdDev |-> gyroBiasStdDev,
   accScaleSum |-> accScaleSum,
   accScale |-> accScale,
   sensorBiasSampleCount |-> sensorBiasSampleCount,
   sensorBiasFound |-> sensorBiasFound]

\* sqrtf(powf(ax * G, 2) + powf(ay * G, 2) + powf(az * G, 2)), in units of
\* G = IMU_G_PER_LSB_CFG (exact when the norm is a whole number of LSB)
AccMagnitude(w) == Isqrt(w.ax * w.ax + w.ay * w.ay + w.az * w.az)

\* lines 213-222: add the sample to the running sums
CalAccumulate(c, w) ==
  [c EXCEPT
     !.gyroBiasSampleSum = [x |-> @.x + w.gx, y |-> @.y + w.gy, z |-> @.z + w.gz],
     !.gyroBiasSampleSumSquares = [x |-> WAdd(@.x, w.gx * w.gx),
                                   y |-> WAdd(@.y, w.gy * w.gy),
                                   z |-> WAdd(@.z, w.gz * w.gz)],
     !.accScaleSum = @ + AccMagnitude(w),
     !.sensorBiasSampleCount = @ + 1]

\* (float)(sum) / IMU_SENSOR_BIAS_SAMPLES, in 1/1024 LSB
BiasOf(sum) == F32Int(sum)

\* the argument of sqrtf in lines 231-233, in 2^-20 LSB^2:
\* (float)(sumSquares) / 1024 - (bias * bias), each product and quotient
\* rounded to a float
VarianceOf(sumSquares, bias) ==
  WDiff(WShl(F32W(sumSquares), 10), F32W(WSquare(Abs(bias))))

\* lines 226-236: mean, standard deviation and accelerometer scale
CalFinish(c) ==
  LET b == [x |-> BiasOf(c.gyroBiasSampleSum.x),
            y |-> BiasOf(c.gyroBiasSampleSum.y),
            z |-> BiasOf(c.gyroBiasSampleSum.z)]
  IN [c EXCEPT
        !.gyroBias = b,
        !.gyroBiasStdDev =
           [x |-> VarianceOf(c.gyroBiasSampleSumSquares.x, b.x),
            y |-> VarianceOf(c.gyroBiasSampleSumSquares.y, b.y),
            z |-> VarianceOf(c.gyroBiasSampleSumSquares.z, b.z)],
        !.accScale = [num |-> c.accScaleSum, den |-> IMU_SENSOR_BIAS_SAMPLES,
                      unit |-> "G_PER_LSB"],
        !.sensorBiasFound = TRUE]

\* lines 211-238: the calibration step of one frame
CalStep(c, w) ==
  IF ~c.sensorBiasFound
  THEN LET a == CalAccumulate(c, w)
       IN IF a.sensorBiasSampleCount = IMU_SENSOR_BIAS_SAMPLES
          THEN CalFinish(a) ELSE a
  ELSE c

\* lines 240-242: (g - gyroBias) * IMU_DEG_PER_LSB_CFG with the axis signs,
\* in 1/1024 LSB; the float subtraction rounds
GyroSample(c, w) ==
  [x |-> -F32Int(w.gx * 1024 - c.gyroBias.x),
   y |-> F32Int(w.gy * 1024 - c.gyroBias.y),
   z |-> F32Int(w.gz * 1024 - c.gyroBias.z)]

\* lines 244-246: a * IMU_G_PER_LSB_CFG / accScale with the axis signs.
\* With accScale = n/d G the quotient is a * d / n (unit "g"); with the
\* default accScale = 1 it is a G.  den = 0 is a division by zero.
AccSample(c, w) ==
  IF c.accScale.unit = "G_PER_LSB"
  THEN [x |-> -(w.ax) * c.accScale.den, y |-> w.ay * c.accScale.den,
        z |-> w.az * c.accScale.den, den |-> c.accScale.num, unit |-> "g"]
  ELSE [x |-> -(w.ax) * c.accScale.den, y |-> w.ay * c.accScale.den,
        z |-> w.az * c.accScale.den, den |-> c.accScale.num,
        unit |-> "G_PER_LSB"]

\* a variant that finishes one sample early
processAccGyroMeasurements_Early(buf) ==
  LET w == InertialWords(buf)
      c == IF ~CalState.sensorBiasFound
           THEN LET a == CalAccumulate(CalState, w)
                IN IF a.sensorBiasSampleCount = IMU_SENSOR_BIAS_SAMPLES - 1
                   THEN CalFinish(a) ELSE a
           ELSE CalState
  IN [cal |-> c, gyro |-> GyroSample(c, w), acc |-> AccSample(c, w)]

\* a variant that keeps accumulating after the bias was found
processAccGyroMeasurements_NoFreeze(buf) ==
  LET w == InertialWords(buf)
      a == CalAccumulate(CalState, w)
      c == IF a.sensorBiasSampleCount = IMU_SENSOR_BIAS_SAMPLES
           THEN CalFinish(a) ELSE a
  IN [cal |-> c, gyro |-> GyroSample(c, w), acc |-> AccSample(c, w)]

\* a variant that publishes the gyro sample computed with the old bias
processAccGyroMeasurements_StaleBias(buf) ==
  LET w == InertialWords(buf)
      c == CalStep(CalState, w)
  IN [cal |-> c, gyro |-> GyroSample(CalState, w), acc |-> AccSample(c, w)]

\* processAccGyroMeasurements(buffer): the new calibration state and the new
\* sensors.gyro and sensors.acc
processAccGyroMeasurements(buf) ==
  LET w == InertialWords(buf)
      c == CalStep(CalState, w)
  IN [cal |-> c, gyro |-> GyroSample(c, w), acc |-> AccSample(c, w)]

\* the assignment of the calibration globals
SetCal(c) ==
  /\ gyroBias' = c.gyroBias
  /\ gyroBiasSampleSum' = c.gyroBiasSampleSum
  /\ gyroBiasSampleSumSquares' = c.gyroBiasSampleSumSquares
  /\ gyroBiasStdDev' = c.gyroBiasStdDev
  /\ accScaleSum' = c.accScaleSum
  /\ accScale' = c.accScale
  /\ sensorBiasSampleCount' = c.sensorBiasSampleCount
  /\ sensorBiasFound' = c.sensorBiasFound

ZeroVariance == [neg |-> FALSE, mag |-> WZero]

\* the statics' initial values (lines 75-84)
InitCal ==
  /\ gyroBias = ZeroAxis3
  /\ gyroBiasSampleSum = ZeroAxis3
  /\ gyroBiasSampleSumSquares = [x |-> WZero, y |-> WZero, z |-> WZero]
  /\ gyroBiasStdDev = [x |-> ZeroVariance, y |-> ZeroVariance, z |-> ZeroVariance]
  /\ accScaleSum = 0
  /\ accScale = [num |-> 1, den |-> 1, unit |-> "g"]
  /\ sensorBiasSampleCount = 0
  /\ sensorBiasFound = FALSE

sensorsAreCalibrated == sensorBiasFound

(***************************************************************************)
(* One acquisition: bus read and decoding (sensorsTask, lines 144-157)     *)
(***************************************************************************)
\* uint8_t dataLen = MPU6500_BUFF_LEN + (mag ? MAG_BUFF_LEN : 0) + ...
DataLen ==
  MPU6500_BUFF_LEN + (IF isMagnetometerPresent THEN MAG_BUFF_LEN ELSE 0)
                   + (IF isBarometerPresent THEN BARO_BUFF_LEN ELSE 0)

\* i2cdevRead(..., dataLen, buffer): the first dataLen bytes are replaced
I2cdevRead(data) ==
  [i \in DOMAIN buffer |-> IF i <= DataLen /\ i <= Len(data) THEN data[i] ELSE buffer[i]]

\* a variant of the barometer offset that assumes the magnetometer block
BaroOffset_Fixed == MPU6500_BUFF_LEN + MAG_BUFF_LEN

\* line 156: &(buffer[isMagnetometerPresent ? 22 : 14])
BaroOffset ==
  IF isMagnetometerPresent THEN MPU6500_BUFF_LEN + MAG_BUFF_LEN ELSE MPU6500_BUFF_LEN

\* history: the raw gyro vector of the first frame, and whether every one
\* of the first IMU_SENSOR_BIAS_SAMPLES frames so far carried it
TrackFrames(buf) ==
  LET w == InertialWords(buf)
      g == <<w.gx, w.gy, w.gz>>
  IN /\ framesProcessed' = framesProcessed + 1
     /\ firstGyro' = IF framesProcessed = 0 THEN g ELSE firstGyro
     /\ gyroConstant' = IF framesProcessed = 0 THEN TRUE
                        ELSE IF framesProcessed < IMU_SENSOR_BIAS_SAMPLES
                             THEN gyroConstant /\ g = firstGyro
                             ELSE gyroConstant

\* the 0-based indices of buffer the decoders read: lines 204-209
AccGyroBytes == (0..5) \cup (8..13)

\* lines 190-193: buffer[0] always, buffer[1..6] when data is ready
MagBytes(buf, off) ==
  {off} \cup (IF BitSet(At(buf, off, 0), AK8963_ST1_DRDY_MASK)
              THEN {off + k : k \in 1..6} ELSE {})

\* lines 175-181: buffer[0] always, buffer[1..3] and buffer[4..5] on update
BaroBytes(buf, off) ==
  {off} \cup (IF BitSet(At(buf, off, 0), BARO_PRESSURE_MASK)
              THEN {off + k : k \in 1..3} ELSE {})
        \cup (IF BitSet(At(buf, off, 0), BARO_TEMP_MASK)
              THEN {off + k : k \in 4..5} ELSE {})

\* history: the length of the bus read of this cycle, the offsets handed to
\* the auxiliary decoders and the indices the decoders read
TrackBusRead(buf) ==
  busRead' =
    [len |-> DataLen,
     magOff |-> MPU6500_BUFF_LEN,
     baroOff |-> BaroOffset,
     accessed |->
       AccGyroBytes
       \cup (IF isMagnetometerPresent THEN MagBytes(buf, MPU6500_BUFF_LEN) ELSE {})
       \cup (IF isBarometerPresent THEN BaroBytes(buf, BaroOffset) ELSE {})]

\* lines 148-157: read the frame into the buffer and run the decoders
AcquireAndDecode(data) ==
  LET buf == I2cdevRead(data)
      ag == processAccGyroMeasurements(buf)
      b == processBarometerMeasurements(buf, BaroOffset)
  IN /\ buffer' = buf
     /\ SetCal(ag.cal)
     /\ sensors' =
          [acc |-> ag.acc,
           gyro |-> ag.gyro,
           mag |-> IF isMagnetometerPresent
                   THEN processMagnetometerMeasurements(buf, MPU6500_BUFF_LEN)
                   ELSE sensors.mag,
           baro |-> IF isBarometerPresent THEN b.baro ELSE sensors.baro]
     /\ rawPressure' = IF isBarometerPresent THEN b.rawPressure ELSE rawPressure
     /\ rawTemp' = IF isBarometerPresent THEN b.rawTemp ELSE rawTemp
     /\ TrackFrames(buf)
     /\ TrackBusRead(buf)

(***************************************************************************)
(* Initial values                                                          *)
(***************************************************************************)
Channels == {"accelerometerDataQueue", "gyroDataQueue",
             "magnetometerDataQueue", "barometerDataQueue"}

NoRead == [ok |-> FALSE, val |-> "none", at |-> 0, prevAt |-> 0,
           expect |-> "none", done |-> FALSE]

InitDec ==
  /\ buffer = ZeroBuffer
  /\ sensors = ZeroSensors
  /\ rawPressure = 0
  /\ rawTemp = 0

\* after sensorsInit: the semaphore and the queues are created empty, the
\* task is created and waits for the first signal
InitTask ==
  /\ sensorsDataReady = 0
  /\ queue = [ch \in Channels |-> <<>>]
  /\ taskPc = "take"
  /\ schedulerSuspended = FALSE
  /\ interrupts = 0
  /\ cycle = 0
  /\ published = 0
  /\ pubCount = [ch \in Channels |-> 0]
  /\ lastPub = [ch \in Channels |-> "none"]
  /\ signal = [takenAt |-> 0, servedUpTo |-> 0, postedAt |-> "none", coalesced |-> 0]

InitReader ==
  /\ readerPc = "idle"
  /\ readerSensors = ZeroSensors
  /\ got = [ch \in Channels |-> 0]
  /\ rd = [ch \in Channels |-> NoRead]

InitTest ==
  /\ isMpu6500TestPassed = TRUE
  /\ isAK8963TestPassed = TRUE
  /\ isLPS25HTestPassed = TRUE
  /\ testPc = "idle"
  /\ testI = 0
  /\ mpu6500SelfTestPassed = FALSE
  /\ testStatus = TRUE
  /\ testResult = "none"
  /\ lastOutcome = "none"
  /\ attempts = 0
  /\ delays = 0
  /\ magCalls = 0
  /\ baroCalls = 0
  /\ magOutcome = "none"
  /\ baroOutcome = "none"

InitHarness ==
  /\ framesProcessed = 0
  /\ firstGyro = <<0, 0, 0>>
  /\ gyroConstant = TRUE
  /\ deviations = 0
  /\ busRead = [len |-> 0, magOff |-> 0, baroOff |-> 0, accessed |-> {}]

(***************************************************************************)
(* Calibration harness: processAccGyroMeasurements on a sequence of frames *)
(***************************************************************************)
\* Frames whose accelerometer norm is a whole number of LSB.  The first has
\* an all-zero accelerometer; the second and third share the gyro vector.
CalFrames ==
  { InertialBlock(0, 0, 0, 0, 0, 0),
    InertialBlock(0, 0, 4096, 5001, -3, 32767),
    InertialBlock(3, 4, 0, 5001, -3, 32767),
    InertialBlock(-32768, 0, 0, -32768, 32767, 1),
    InertialBlock(0, 0, 0, -4097, 12345, -32768) }

InitCalHarness ==
  /\ isInit = TRUE
  /\ isMagnetometerPresent = FALSE
  /\ isBarometerPresent = FALSE
  /\ InitCal /\ InitDec /\ InitTask /\ InitReader /\ InitTest /\ InitHarness
  /\ baseFrame \in CalFrames

\* one more frame equal to the base frame
CalFrameBase ==
  /\ framesProcessed < IMU_SENSOR_BIAS_SAMPLES + MaxExtraFrames
  /\ AcquireAndDecode(baseFrame)
  /\ UNCHANGED <<flagVars, taskVars, readerVars, testVars, baseFrame, deviations>>

\* one frame that differs from the base frame
CalFrameOther ==
  /\ framesProcessed < IMU_SENSOR_BIAS_SAMPLES + MaxExtraFrames
  /\ deviations < MaxDeviations
  /\ \E f \in CalFrames \ {baseFrame} : AcquireAndDecode(f)
  /\ deviations' = deviations + 1
  /\ UNCHANGED <<flagVars, taskVars, readerVars, testVars, baseFrame>>

NextCal == CalFrameBase \/ CalFrameOther

SpecCal == InitCalHarness /\ [][NextCal]_vars

(***************************************************************************)
(* Calibration claims (checked under SpecCal)                              *)
(***************************************************************************)
\* C6: accScale is strictly greater than 0 in every reachable state, for
\* every sequence of raw accelerometer frames (including 1024 warm-up frames
\* whose accelerometer words are all zero), so the accel output never
\* divides by zero.
C6_AccScalePositive ==
  /\ accScale.num > 0
  /\ accScale.den > 0
  /\ sensors.acc.den # 0

\* C7: while fewer than 1024 inertial frames have been processed,
\* sensorsAreCalibrated() is false, gyroBias is (0,0,0) and accScale is 1.
C7_DefaultsBeforeThreshold ==
  framesProcessed < IMU_SENSOR_BIAS_SAMPLES =>
    /\ ~sensorsAreCalibrated
    /\ gyroBias = ZeroAxis3
    /\ accScale = [num |-> 1, den |-> 1, unit |-> "g"]

\* the case of C7: 1023 frames with a non-zero gyro sum processed
C7_Witness ==
  /\ framesProcessed = IMU_SENSOR_BIAS_SAMPLES - 1
  /\ gyroBiasSampleSum.x # 0
  /\ accScaleSum > 0
  /\ deviations > 0

GyroBiasIs(g) ==
  /\ gyroBias.x = g[1] * IMU_SENSOR_BIAS_SAMPLES
  /\ gyroBias.y = g[2] * IMU_SENSOR_BIAS_SAMPLES
  /\ gyroBias.z = g[3] * IMU_SENSOR_BIAS_SAMPLES

\* C8: if the first 1024 frames all carry the same raw gyro vector g, then
\* sensorBiasFound is false before the 1024th frame and true from it on, and
\* right after the 1024th frame gyroBias = g, gyroBiasStdDev = 0 and the gyro
\* sample of that frame is zero on every axis.
C8_ConstantGyroCalibration ==
  gyroConstant =>
    /\ framesProcessed < IMU_SENSOR_BIAS_SAMPLES => ~sensorBiasFound
    /\ framesProcessed >= IMU_SENSOR_BIAS_SAMPLES => sensorBiasFound /\ GyroBiasIs(firstGyro)
    /\ framesProcessed = IMU_SENSOR_BIAS_SAMPLES =>
         /\ gyroBiasStdDev = [x |-> ZeroVariance, y |-> ZeroVariance, z |-> ZeroVariance]
         /\ sensors.gyro = ZeroAxis3

\* the case of C8: 1024 frames with one large gyro vector, not all equal
\* in their accelerometer words, have just been processed
C8_Witness ==
  /\ gyroConstant
  /\ framesProcessed = IMU_SENSOR_BIAS_SAMPLES
  /\ firstGyro = <<5001, -3, 32767>>
  /\ deviations > 0

C8_WitnessExtreme ==
  /\ gyroConstant
  /\ framesProcessed = IMU_SENSOR_BIAS_SAMPLES
  /\ firstGyro = <<-32768, 32767, 1>>

frozenVars == <<sensorBiasSampleCount, gyroBiasSampleSum,
                gyroBiasSampleSumSquares, accScaleSum, gyroBias, accScale>>

\* C9: sensorBiasSampleCount grows by exactly 1 on each inertial frame while
\* sensorBiasFound is false and never exceeds 1024; once sensorBiasFound is
\* true it stays true and the count, the running sums, gyroBias and accScale
\* are never modified again; gyroBias and accScale change only in the step
\* that sets sensorBiasFound.
C9_Step ==
  /\ (~sensorBiasFound /\ framesProcessed' # framesProcessed)
       => sensorBiasSampleCount' = sensorBiasSampleCount + 1
  /\ sensorBiasSampleCount' <= IMU_SENSOR_BIAS_SAMPLES
  /\ sensorBiasFound => (sensorBiasFound' /\ UNCHANGED frozenVars)
  /\ ~sensorBiasFound' => UNCHANGED <<gyroBias, accScale>>
  /\ (sensorBiasFound' /\ ~sensorBiasFound)
       => sensorBiasSampleCount' = IMU_SENSOR_BIAS_SAMPLES

C9_OneShotFrozen == [][C9_Step]_vars

\* the case of C9: a frame unlike the warm-up frames was processed after the
\* bias was found
C9_Witness ==
  /\ sensorBiasFound
  /\ framesProcessed > IMU_SENSOR_BIAS_SAMPLES
  /\ InertialWords(buffer).gx * IMU_SENSOR_BIAS_SAMPLES # gyroBias.x
  /\ gyroConstant

(***************************************************************************)
(* Queues, semaphore and scheduler (FreeRTOS primitives as the code uses   *)
(* them: queues of length 1, receive with a zero timeout)                  *)
(***************************************************************************)
\* xQueueOverwrite on a queue of length 1: the item replaces the content
xQueueOverwrite(q, item) == <<item>>

\* xQueueSend with no wait on a queue of length 1: fails when it is full
xQueueSendNoWait(q, item) == IF q = <<>> THEN <<item>> ELSE q

\* xQueueReceive(q, &item, 0): takes the item if there is one, never waits
xQueueReceive(q) ==
  IF q = <<>> THEN [ok |-> FALSE, item |-> "none", rest |-> q]
  ELSE [ok |-> TRUE, item |-> Head(q), rest |-> Tail(q)]

\* xQueuePeek(q, &item, 0): like xQueueReceive, the item stays
xQueuePeek(q) ==
  IF q = <<>> THEN [ok |-> FALSE, item |-> "none", rest |-> q]
  ELSE [ok |-> TRUE, item |-> Head(q), rest |-> q]

\* vTaskSuspendAll(): no other task runs until xTaskResumeAll(); interrupts
\* stay enabled
vTaskSuspendAll == schedulerSuspended' = TRUE

xTaskResumeAll == schedulerSuspended' = FALSE

\* xSemaphoreGiveFromISR on a binary semaphore (created empty, line 437): the
\* semaphore becomes available; a give while it is available fails and
\* leaves it available
xSemaphoreGiveFromISR(sem) == IF sem = 0 THEN 1 ELSE sem

\* xSemaphoreTake with portMAX_DELAY: returns only once the semaphore is
\* available, and takes it
xSemaphoreTake(sem) == [ok |-> sem > 0, sem |-> IF sem > 0 THEN sem - 1 ELSE sem]

(***************************************************************************)
(* EXTI13_Callback: the data-ready interrupt                               *)
(***************************************************************************)
\* history of a posting: where the task was (waiting for the signal, in a
\* cycle, inside the publish critical section) and whether a signal was
\* already pending
Posted ==
  [signal EXCEPT !.postedAt = IF schedulerSuspended THEN "critical"
                              ELSE IF taskPc = "take" THEN "waiting"
                              ELSE "cycle",
                 !.coalesced = @ + sensorsDataReady]

\* a variant of the interrupt handler on a counting semaphore
EXTI13_Callback_Counting ==
  /\ interrupts < MaxInterrupts
  /\ interrupts' = interrupts + 1
  /\ sensorsDataReady' = sensorsDataReady + 1
  /\ signal' = Posted
  /\ UNCHANGED <<flagVars, calVars, decVars, readerVars, testVars, harnessVars,
                 queue, taskPc, schedulerSuspended, cycle, published,
                 pubCount, lastPub>>

\* lines 491-499.  xSemaphoreGiveFromISR on the binary semaphore: a second give while the
\* signal is pending changes nothing.  Interrupts stay enabled while the
\* scheduler is suspended.
EXTI13_Callback ==
  /\ interrupts < MaxInterrupts
  /\ interrupts' = interrupts + 1
  /\ sensorsDataReady' = xSemaphoreGiveFromISR(sensorsDataReady)
  /\ signal' = Posted
  /\ UNCHANGED <<flagVars, calVars, decVars, readerVars, testVars, harnessVars,
                 queue, taskPc, schedulerSuspended, cycle, published,
                 pubCount, lastPub>>

(***************************************************************************)
(* sensorsTask: the acquisition loop, one action per step                  *)
(***************************************************************************)
\* what the bus delivers in one cycle: the inertial block, then the blocks
\* of the slaves that are enabled
BusFrame(inertial, mag, baro) ==
  inertial \o (IF isMagnetometerPresent THEN mag ELSE <<>>)
           \o (IF isBarometerPresent THEN baro ELSE <<>>)

BusFrames ==
  { BusFrame(InertialBlock(0, 0, 4096, 10, -20, 30),
             MagBlock(1, 100, -200, 300), BaroBlock(3, 4100000, 2000)),
    BusFrame(InertialBlock(3, 4, 0, 10, -20, 31),
             MagBlock(0, 7, 8, 9), BaroBlock(0, 4100001, -1)) }

\* line 141: xSemaphoreTake(sensorsDataReady, portMAX_DELAY)
sensorsTask_Take ==
  /\ taskPc = "take"
  /\ xSemaphoreTake(sensorsDataReady).ok
  /\ sensorsDataReady' = xSemaphoreTake(sensorsDataReady).sem
  /\ cycle' = cycle + 1
  /\ signal' = [signal EXCEPT !.takenAt = interrupts]
  /\ taskPc' = "read"
  /\ UNCHANGED <<flagVars, calVars, decVars, readerVars, testVars, harnessVars,
                 queue, schedulerSuspended, interrupts, published, pubCount,
                 lastPub>>

\* lines 144-157: the bus read and the decoders
sensorsTask_Acquire ==
  /\ taskPc = "read"
  /\ \E data \in BusFrames : AcquireAndDecode(data)
  /\ taskPc' = "suspend"
  /\ UNCHANGED <<flagVars, readerVars, testVars, baseFrame, deviations,
                 sensorsDataReady, queue, schedulerSuspended, interrupts,
                 cycle, published, pubCount, lastPub, signal>>

\* a variant of line 159 without the call to vTaskSuspendAll
sensorsTask_SuspendAll_Missing ==
  /\ taskPc = "suspend"
  /\ taskPc' = "acc"
  /\ UNCHANGED <<flagVars, calVars, decVars, readerVars, testVars, harnessVars,
                 sensorsDataReady, queue, schedulerSuspended, interrupts,
                 cycle, published, pubCount, lastPub, signal>>

\* line 159: vTaskSuspendAll()
sensorsTask_SuspendAll ==
  /\ taskPc = "suspend"
  /\ vTaskSuspendAll
  /\ taskPc' = "acc"
  /\ UNCHANGED <<flagVars, calVars, decVars, readerVars, testVars, harnessVars,
                 sensorsDataReady, queue, interrupts, cycle, published,
                 pubCount, lastPub, signal>>

\* a variant that writes with xQueueSend and no wait
Publish_Send(ch, present, val, next) ==
  /\ queue' = IF present
              THEN [queue EXCEPT ![ch] = xQueueSendNoWait(@, [val |-> val, cycle |-> cycle])]
              ELSE queue
  /\ pubCount' = IF present THEN [pubCount EXCEPT ![ch] = @ + 1] ELSE pubCount
  /\ lastPub' = IF present THEN [lastPub EXCEPT ![ch] = [val |-> val, cycle |-> cycle]]
                ELSE lastPub
  /\ taskPc' = next

\* a variant that writes the slot whether or not the device is present
Publish_Always(ch, present, val, next) ==
  /\ queue' = [queue EXCEPT ![ch] = xQueueOverwrite(@, [val |-> val, cycle |-> cycle])]
  /\ pubCount' = [pubCount EXCEPT ![ch] = @ + 1]
  /\ lastPub' = [lastPub EXCEPT ![ch] = [val |-> val, cycle |-> cycle]]
  /\ taskPc' = next

\* a variant that writes the slot only when the value is new
Publish_OnlyFresh(ch, present, val, next) ==
  LET fresh == present /\ (pubCount[ch] = 0 \/ lastPub[ch].val # val)
  IN /\ queue' = IF fresh
                 THEN [queue EXCEPT ![ch] = xQueueOverwrite(@, [val |-> val, cycle |-> cycle])]
                 ELSE queue
     /\ pubCount' = IF fresh THEN [pubCount EXCEPT ![ch] = @ + 1] ELSE pubCount
     /\ lastPub' = IF fresh THEN [lastPub EXCEPT ![ch] = [val |-> val, cycle |-> cycle]]
                   ELSE lastPub
     /\ taskPc' = next

\* lines 160-163: if (present) xQueueOverwrite(queue, &value).  The item
\* carries the number of the cycle that publishes it (history).
Publish(ch, present, val, next) ==
  /\ queue' = IF present
              THEN [queue EXCEPT ![ch] = xQueueOverwrite(@, [val |-> val, cycle |-> cycle])]
              ELSE queue
  /\ pubCount' = IF present THEN [pubCount EXCEPT ![ch] = @ + 1] ELSE pubCount
  /\ lastPub' = IF present THEN [lastPub EXCEPT ![ch] = [val |-> val, cycle |-> cycle]]
                ELSE lastPub
  /\ taskPc' = next

pubFrame == <<flagVars, calVars, decVars, readerVars, testVars, harnessVars,
              sensorsDataReady, schedulerSuspended, interrupts, cycle,
              published, signal>>

\* line 160
sensorsTask_WriteAcc ==
  /\ taskPc = "acc"
  /\ Publish("accelerometerDataQueue", TRUE, sensors.acc, "gyro")
  /\ UNCHANGED pubFrame

\* line 161
sensorsTask_WriteGyro ==
  /\ taskPc = "gyro"
  /\ Publish("gyroDataQueue", TRUE, sensors.gyro, "mag")
  /\ UNCHANGED pubFrame

\* line 162
sensorsTask_WriteMag ==
  /\ taskPc = "mag"
  /\ Publish("magnetometerDataQueue", isMagnetometerPresent, sensors.mag, "baro")
  /\ UNCHANGED pubFrame

\* line 163
sensorsTask_WriteBaro ==
  /\ taskPc = "baro"
  /\ Publish("barometerDataQueue", isBarometerPresent, sensors.baro, "resume")
  /\ UNCHANGED pubFrame

\* a variant of the end of the cycle that clears the signal
sensorsTask_ResumeAll_ClearSignal ==
  /\ taskPc = "resume"
  /\ xTaskResumeAll
  /\ published' = cycle
  /\ taskPc' = "take"
  /\ signal' = [signal EXCEPT !.servedUpTo = signal.takenAt]
  /\ sensorsDataReady' = 0
  /\ UNCHANGED <<flagVars, calVars, decVars, readerVars, testVars, harnessVars,
                 queue, interrupts, cycle, pubCount, lastPub>>

\* line 164: xTaskResumeAll(); the loop goes back to the semaphore
sensorsTask_ResumeAll ==
  /\ taskPc = "resume"
  /\ xTaskResumeAll
  /\ published' = cycle
  /\ taskPc' = "take"
  /\ signal' = [signal EXCEPT !.servedUpTo = signal.takenAt]
  /\ UNCHANGED <<flagVars, calVars, decVars, readerVars, testVars, harnessVars,
                 sensorsDataReady, queue, interrupts, cycle, pubCount, lastPub>>

(***************************************************************************)
(* The reader task: sensorsAcquire, one action per sensorsRead* call       *)
(***************************************************************************)
\* history of a read: its result, the number of publishes to the channel
\* before it and before the previous read, and the latest published item
ReadRecord(ch, r) ==
  [ok |-> r.ok, val |-> r.item, at |-> pubCount[ch], prevAt |-> rd[ch].at,
   expect |-> lastPub[ch], done |-> TRUE]

\* a variant that reads with xQueuePeek
SensorsRead_Peek(ch, field, next) ==
  LET r == xQueuePeek(queue[ch])
  IN /\ ~schedulerSuspended
     /\ queue' = [queue EXCEPT ![ch] = r.rest]
     /\ readerSensors' = IF r.ok THEN [readerSensors EXCEPT ![field] = r.item.val]
                         ELSE readerSensors
     /\ got' = [got EXCEPT ![ch] = IF r.ok THEN r.item.cycle ELSE 0]
     /\ rd' = [rd EXCEPT ![ch] = ReadRecord(ch, r)]
     /\ readerPc' = next

\* lines 104-119: return (pdTRUE == xQueueReceive(queue, out, 0))
SensorsRead(ch, field, next) ==
  LET r == xQueueReceive(queue[ch])
  IN /\ ~schedulerSuspended
     /\ queue' = [queue EXCEPT ![ch] = r.rest]
     /\ readerSensors' = IF r.ok THEN [readerSensors EXCEPT ![field] = r.item.val]
                         ELSE readerSensors
     /\ got' = [got EXCEPT ![ch] = IF r.ok THEN r.item.cycle ELSE 0]
     /\ rd' = [rd EXCEPT ![ch] = ReadRecord(ch, r)]
     /\ readerPc' = next

readFrame == <<flagVars, calVars, decVars, testVars, harnessVars,
               sensorsDataReady, taskPc, schedulerSuspended, interrupts,
               cycle, published, pubCount, lastPub, signal>>

\* the reader calls sensorsAcquire
sensorsAcquire_Call ==
  /\ ~schedulerSuspended
  /\ readerPc = "idle"
  /\ readerPc' = "gyro"
  /\ got' = [ch \in Channels |-> 0]
  /\ UNCHANGED <<readFrame, queue, readerSensors, rd>>

sensorsReadGyro ==
  /\ readerPc = "gyro"
  /\ SensorsRead("gyroDataQueue", "gyro", "acc")
  /\ UNCHANGED readFrame

sensorsReadAcc ==
  /\ readerPc = "acc"
  /\ SensorsRead("accelerometerDataQueue", "acc", "mag")
  /\ UNCHANGED readFrame

sensorsReadMag ==
  /\ readerPc = "mag"
  /\ SensorsRead("magnetometerDataQueue", "mag", "baro")
  /\ UNCHANGED readFrame

sensorsReadBaro ==
  /\ readerPc = "baro"
  /\ SensorsRead("barometerDataQueue", "baro", "idle")
  /\ UNCHANGED readFrame

(***************************************************************************)
(* The concurrent specification                                            *)
(***************************************************************************)
\* after sensorsInit: the presence flags were set by sensorsDeviceInit
Init ==
  /\ isInit = TRUE
  /\ isMagnetometerPresent \in BOOLEAN
  /\ isBarometerPresent \in BOOLEAN
  /\ InitCal /\ InitDec /\ InitTask /\ InitReader /\ InitTest /\ InitHarness
  /\ baseFrame = <<>>

Next ==
  \/ EXTI13_Callback
  \/ sensorsTask_Take
  \/ sensorsTask_Acquire
  \/ sensorsTask_SuspendAll
  \/ sensorsTask_WriteAcc
  \/ sensorsTask_WriteGyro
  \/ sensorsTask_WriteMag
  \/ sensorsTask_WriteBaro
  \/ sensorsTask_ResumeAll
  \/ sensorsAcquire_Call
  \/ sensorsReadGyro
  \/ sensorsReadAcc
  \/ sensorsReadMag
  \/ sensorsReadBaro

Spec == Init /\ [][Next]_vars

\* a step of the acquisition task: the task is runnable when it is past the
\* take or the signal is pending, and every step of it moves taskPc (which
\* nothing else does)
TaskPcs == {"take", "read", "suspend", "acc", "gyro", "mag", "baro", "resume"}

sensorsTask ==
  /\ taskPc # "take" \/ xSemaphoreTake(sensorsDataReady).ok
  /\ taskPc' \in TaskPcs \ {taskPc}

\* the scheduler keeps running the acquisition task while it is runnable:
\* the bus read and the queue writes return
SpecFair == Init /\ [][Next]_vars /\ WF_taskPc(sensorsTask)

(***************************************************************************)
(* Publication claims (checked under Spec)                                 *)
(***************************************************************************)
\* C1: the values one sensorsAcquire call obtains from the four channels
\* all come from the same acquisition cycle, for every interleaving of the
\* acquisition task with the reader.
C1_AcquireSameCycle ==
  readerPc = "idle" =>
    \A a, b \in Channels : (got[a] # 0 /\ got[b] # 0) => got[a] = got[b]

\* C2: no reader step is interleaved between the first and the last
\* xQueueOverwrite of a cycle, and whenever a reader can run every non-empty
\* slot holds a value of the most recently published cycle.
C2_ReaderSeesOneCycle ==
  ~schedulerSuspended =>
    \A ch \in Channels : queue[ch] # <<>> => queue[ch][1].cycle = published

C2_NoReaderStepInside ==
  taskPc \in {"gyro", "mag", "baro"} => UNCHANGED readerVars

C2_CriticalSection == [] C2_ReaderSeesOneCycle /\ [][C2_NoReaderStepInside]_vars

\* the case of C2: after a second publish, a reader in the middle of
\* sensorsAcquire can run and some slots are still full
C2_Witness ==
  /\ ~schedulerSuspended
  /\ published >= 2
  /\ readerPc \in {"acc", "mag", "baro"}
  /\ queue["accelerometerDataQueue"] # <<>>
  /\ got["gyroDataQueue"] = 1

\* C3: a read of a channel that was never written returns false; a read
\* returns true, with exactly the published value, iff the channel was
\* published to since the previous read of it; so the read after a publish
\* returns the value once and the next read without a publish returns false.
C3_DestructiveRead ==
  \A ch \in Channels :
    /\ rd[ch].ok <=> rd[ch].at > rd[ch].prevAt
    /\ rd[ch].ok => rd[ch].val = rd[ch].expect
    /\ (rd[ch].done /\ rd[ch].at = 0) => ~rd[ch].ok

\* the case of C3: a second read with no publish since the first, on a
\* channel that was written, and a read of a channel never written
C3_Witness ==
  /\ rd["gyroDataQueue"].done
  /\ rd["gyroDataQueue"].at = rd["gyroDataQueue"].prevAt
  /\ rd["gyroDataQueue"].at > 0
  /\ ~rd["gyroDataQueue"].ok
  /\ rd["magnetometerDataQueue"].done
  /\ rd["magnetometerDataQueue"].at = 0

\* C4 as stated: after the publish of any cycle, for every value of the
\* presence flags, each of the four channels has pending data.
C4_AllFourWritten ==
  taskPc = "resume" => \A ch \in Channels : queue[ch] # <<>>

WrittenThisCycle(ch) == queue[ch] # <<>> /\ queue[ch][1].cycle = cycle

\* C4 as amended: after the writes of a cycle the accelerometer and gyro
\* channels hold data of that cycle, the magnetometer (barometer) channel
\* holds data of that cycle iff the magnetometer (barometer) is present, and
\* the channel of an absent device is never written.
C4_PresentChannelsWritten ==
  taskPc = "resume" =>
    /\ WrittenThisCycle("accelerometerDataQueue")
    /\ WrittenThisCycle("gyroDataQueue")
    /\ IF isMagnetometerPresent THEN WrittenThisCycle("magnetometerDataQueue")
       ELSE pubCount["magnetometerDataQueue"] = 0 /\ queue["magnetometerDataQueue"] = <<>>
    /\ IF isBarometerPresent THEN WrittenThisCycle("barometerDataQueue")
       ELSE pubCount["barometerDataQueue"] = 0 /\ queue["barometerDataQueue"] = <<>>

\* the case of C4: the writes of a second cycle are done, with the
\* magnetometer absent and the barometer present
C4_Witness ==
  /\ taskPc = "resume"
  /\ cycle >= 2
  /\ ~isMagnetometerPresent
  /\ isBarometerPresent

\* C5: a publish never blocks or fails and replaces an unread value: a slot
\* holds at most one value, which is the latest one published to it, and a
\* read that returns data returns the latest published value.
C5_OverwriteLatest ==
  /\ \A ch \in Channels :
       /\ Len(queue[ch]) <= 1
       /\ queue[ch] # <<>> => queue[ch] = <<lastPub[ch]>>
       /\ rd[ch].ok => rd[ch].val = rd[ch].expect
  /\ taskPc = "acc" => ENABLED sensorsTask_WriteAcc
  /\ taskPc = "gyro" => ENABLED sensorsTask_WriteGyro
  /\ taskPc = "mag" => ENABLED sensorsTask_WriteMag
  /\ taskPc = "baro" => ENABLED sensorsTask_WriteBaro

\* the case of C5: two publishes to a channel without a read in between,
\* then a read that returned data
C5_Witness ==
  /\ rd["accelerometerDataQueue"].ok
  /\ rd["accelerometerDataQueue"].at >= rd["accelerometerDataQueue"].prevAt + 2
  /\ rd["accelerometerDataQueue"].val.cycle = 3

(***************************************************************************)
(* sensorsTest: the self-test orchestrator, one action per step            *)
(***************************************************************************)
testFrame == <<flagVars, calVars, decVars, taskVars, readerVars, harnessVars>>

\* lines 446-453: the locals and the isInit check
sensorsTest_Begin ==
  /\ testPc = "idle"
  /\ mpu6500SelfTestPassed' = FALSE
  /\ testStatus' = isInit
  /\ testI' = 0
  /\ testPc' = IF 0 < SELF_TEST_ATTEMPTS THEN "loop" ELSE "mag"
  /\ UNCHANGED <<testFrame, isMpu6500TestPassed, isAK8963TestPassed,
                 isLPS25HTestPassed, testResult, lastOutcome, attempts,
                 delays, magCalls, baroCalls, magOutcome, baroOutcome>>

\* a variant of the loop body whose loop test is i <= 300
sensorsTest_Attempt_OffByOne ==
  /\ testPc = "loop"
  /\ \E pass \in BOOLEAN :
       /\ lastOutcome' = pass
       /\ attempts' = attempts + 1
       /\ IF pass
          THEN /\ mpu6500SelfTestPassed' = TRUE
               /\ testPc' = "mag"
               /\ UNCHANGED <<delays, testI>>
          ELSE /\ delays' = delays + 1
               /\ testI' = testI + 1
               /\ testPc' = IF testI + 1 <= SELF_TEST_ATTEMPTS THEN "loop" ELSE "mag"
               /\ UNCHANGED mpu6500SelfTestPassed
  /\ UNCHANGED <<testFrame, isMpu6500TestPassed, isAK8963TestPassed,
                 isLPS25HTestPassed, testStatus, testResult, magCalls,
                 baroCalls, magOutcome, baroOutcome>>

\* a variant of the magnetometer step that runs ak8963SelfTest() whenever the
\* magnetometer is present, whatever the status so far
sensorsTest_Mag_Unconditional ==
  /\ testPc = "mag"
  /\ LET st == testStatus /\ mpu6500SelfTestPassed /\ isMagnetometerPresent
     IN IF isMagnetometerPresent
        THEN \E pass \in BOOLEAN :
               /\ isAK8963TestPassed' = pass
               /\ testStatus' = (st /\ pass)
               /\ magCalls' = magCalls + 1
               /\ magOutcome' = IF pass THEN "pass" ELSE "fail"
        ELSE /\ testStatus' = st
             /\ UNCHANGED <<isAK8963TestPassed, magCalls, magOutcome>>
  /\ testPc' = "baro"
  /\ UNCHANGED <<testFrame, isMpu6500TestPassed, isLPS25HTestPassed, testI,
                 mpu6500SelfTestPassed, testResult, lastOutcome, attempts,
                 delays, baroCalls, baroOutcome>>

\* a variant of the loop body without the break
sensorsTest_Attempt_NoBreak ==
  /\ testPc = "loop"
  /\ \E pass \in BOOLEAN :
       /\ lastOutcome' = pass
       /\ attempts' = attempts + 1
       /\ mpu6500SelfTestPassed' = (mpu6500SelfTestPassed \/ pass)
       /\ delays' = IF pass THEN delays ELSE delays + 1
       /\ testI' = testI + 1
       /\ testPc' = IF testI + 1 < SELF_TEST_ATTEMPTS THEN "loop" ELSE "mag"
  /\ UNCHANGED <<testFrame, isMpu6500TestPassed, isAK8963TestPassed,
                 isLPS25HTestPassed, testStatus, testResult, magCalls,
                 baroCalls, magOutcome, baroOutcome>>

\* lines 456-467: one iteration of the retry loop: mpu6500SelfTest() passes
\* (break) or fails (vTaskDelay(M2T(10)), i++, loop test)
sensorsTest_Attempt ==
  /\ testPc = "loop"
  /\ \E pass \in BOOLEAN :
       /\ lastOutcome' = pass
       /\ attempts' = attempts + 1
       /\ IF pass
          THEN /\ mpu6500SelfTestPassed' = TRUE
               /\ testPc' = "mag"
               /\ UNCHANGED <<delays, testI>>
          ELSE /\ delays' = delays + 1
               /\ testI' = testI + 1
               /\ testPc' = IF testI + 1 < SELF_TEST_ATTEMPTS THEN "loop" ELSE "mag"
               /\ UNCHANGED mpu6500SelfTestPassed
  /\ UNCHANGED <<testFrame, isMpu6500TestPassed, isAK8963TestPassed,
                 isLPS25HTestPassed, testStatus, testResult, magCalls,
                 baroCalls, magOutcome, baroOutcome>>

\* lines 468-476: fold in the primary result and the magnetometer
sensorsTest_Mag ==
  /\ testPc = "mag"
  /\ LET st == testStatus /\ mpu6500SelfTestPassed /\ isMagnetometerPresent
     IN IF st
        THEN \E pass \in BOOLEAN :
               /\ isAK8963TestPassed' = pass
               /\ testStatus' = pass
               /\ magCalls' = magCalls + 1
               /\ magOutcome' = IF pass THEN "pass" ELSE "fail"
        ELSE /\ testStatus' = st
             /\ UNCHANGED <<isAK8963TestPassed, magCalls, magOutcome>>
  /\ testPc' = "baro"
  /\ UNCHANGED <<testFrame, isMpu6500TestPassed, isLPS25HTestPassed, testI,
                 mpu6500SelfTestPassed, testResult, lastOutcome, attempts,
                 delays, baroCalls, baroOutcome>>

\* a variant of the barometer step in which an absent barometer does not
\* fail the test
sensorsTest_Baro_AbsentOk ==
  /\ testPc = "baro"
  /\ LET st == testStatus /\ isBarometerPresent
     IN IF st
        THEN \E pass \in BOOLEAN :
               /\ isLPS25HTestPassed' = pass
               /\ testStatus' = pass
               /\ testResult' = pass
               /\ baroCalls' = baroCalls + 1
               /\ baroOutcome' = IF pass THEN "pass" ELSE "fail"
        ELSE /\ testStatus' = testStatus
             /\ testResult' = testStatus
             /\ UNCHANGED <<isLPS25HTestPassed, baroCalls, baroOutcome>>
  /\ testPc' = "done"
  /\ UNCHANGED <<testFrame, isMpu6500TestPassed, isAK8963TestPassed, testI,
                 mpu6500SelfTestPassed, lastOutcome, attempts, delays,
                 magCalls, magOutcome>>

\* lines 480-488: fold in the barometer and return
sensorsTest_Baro ==
  /\ testPc = "baro"
  /\ LET st == testStatus /\ isBarometerPresent
     IN IF st
        THEN \E pass \in BOOLEAN :
               /\ isLPS25HTestPassed' = pass
               /\ testStatus' = pass
               /\ testResult' = pass
               /\ baroCalls' = baroCalls + 1
               /\ baroOutcome' = IF pass THEN "pass" ELSE "fail"
        ELSE /\ testStatus' = st
             /\ testResult' = st
             /\ UNCHANGED <<isLPS25HTestPassed, baroCalls, baroOutcome>>
  /\ testPc' = "done"
  /\ UNCHANGED <<testFrame, isMpu6500TestPassed, isAK8963TestPassed, testI,
                 mpu6500SelfTestPassed, lastOutcome, attempts, delays,
                 magCalls, magOutcome>>

\* sensorsTest is called once; before sensorsInit (isInit false) the
\* presence flags still have their initial value false
InitSelfTest ==
  /\ isInit \in BOOLEAN
  /\ isMagnetometerPresent \in (IF isInit THEN BOOLEAN ELSE {FALSE})
  /\ isBarometerPresent \in (IF isInit THEN BOOLEAN ELSE {FALSE})
  /\ InitCal /\ InitDec /\ InitTask /\ InitReader /\ InitTest /\ InitHarness
  /\ baseFrame = <<>>

NextTest ==
  \/ sensorsTest_Begin
  \/ sensorsTest_Attempt
  \/ sensorsTest_Mag
  \/ sensorsTest_Baro

SpecTest == InitSelfTest /\ [][NextTest]_vars

\* sensorsTest runs in a task the scheduler keeps running: mpu6500SelfTest,
\* vTaskDelay and the auxiliary self-tests return, so a step that is enabled
\* is eventually taken
SpecTestFair == InitSelfTest /\ [][NextTest]_vars /\ WF_vars(NextTest)

(***************************************************************************)
(* Self-test claims (checked under SpecTest)                               *)
(***************************************************************************)
\* C10 as stated: sensorsTest() returns false only after exhausting 300
\* primary attempts without a pass, and returns true upon the first passing
\* primary attempt.
C10_FalseOnlyAfterExhaustion ==
  testPc = "done" =>
    /\ testResult = FALSE => (attempts = SELF_TEST_ATTEMPTS /\ ~mpu6500SelfTestPassed)
    /\ mpu6500SelfTestPassed => testResult = TRUE

\* C10 as amended: the primary self-test counts as failed only after 300
\* failed attempts, and then sensorsTest() returns false; the first passing
\* attempt ends the retry loop at once (no further attempt is made); and
\* sensorsTest() returns false for no other reason than 300 failed primary
\* attempts, isInit being false, or a magnetometer or barometer that is
\* absent or fails its self-test.
C10_AtDone ==
  testPc = "done" =>
    /\ ~mpu6500SelfTestPassed <=> (attempts = SELF_TEST_ATTEMPTS /\ lastOutcome = FALSE)
    /\ ~mpu6500SelfTestPassed => testResult = FALSE
    /\ mpu6500SelfTestPassed => (lastOutcome = TRUE /\ attempts <= SELF_TEST_ATTEMPTS)
    /\ testResult = FALSE =>
         \/ attempts = SELF_TEST_ATTEMPTS /\ ~mpu6500SelfTestPassed
         \/ ~isInit
         \/ ~isMagnetometerPresent \/ ~isAK8963TestPassed
         \/ ~isBarometerPresent \/ ~isLPS25HTestPassed

C10_NoAttemptAfterPass == mpu6500SelfTestPassed => attempts' = attempts

C10_PrimaryRetry == [] C10_AtDone /\ [][C10_NoAttemptAfterPass]_vars

\* the case of C10: sensorsTest() returned after a primary pass on a later
\* attempt, with everything else in order
C10_Witness ==
  /\ testPc = "done"
  /\ mpu6500SelfTestPassed
  /\ attempts = 3
  /\ testResult = TRUE

C10_WitnessExhausted ==
  /\ testPc = "done"
  /\ attempts = SELF_TEST_ATTEMPTS
  /\ ~mpu6500SelfTestPassed
  /\ testResult = FALSE
  /\ isInit /\ isMagnetometerPresent /\ isBarometerPresent

(***************************************************************************)
(* Claims about the self-test orchestrator, continued                      *)
(***************************************************************************)
MagPass == magOutcome = "pass"
BaroPass == baroOutcome = "pass"

\* C11: the value sensorsTest() returns is init-ok AND primary-pass AND
\* (mag-present AND mag-pass) AND (baro-present AND baro-pass), for every
\* combination of isInit, the primary outcome, the presence flags and the
\* auxiliary outcomes; an auxiliary self-test that was not run has not passed
C11_ReturnIsConjunction ==
  testPc = "done" =>
    testResult = (/\ isInit
                  /\ mpu6500SelfTestPassed
                  /\ isMagnetometerPresent /\ MagPass
                  /\ isBarometerPresent /\ BaroPass)

\* a call that returned true, and so ran all three self-tests
C11_Witness ==
  /\ testPc = "done"
  /\ testResult = TRUE
  /\ attempts = 2
  /\ magCalls = 1
  /\ baroCalls = 1

\* C12: sensorsTest() terminates; mpu6500SelfTest() is called at most 300
\* times and never after a pass; each failed attempt is followed by one
\* delay and a passing attempt by none; the number of attempts is the index
\* of the first passing attempt, or 300 when none passes
C12_Counts ==
  /\ attempts <= SELF_TEST_ATTEMPTS
  /\ delays = attempts - (IF mpu6500SelfTestPassed THEN 1 ELSE 0)
  /\ (mpu6500SelfTestPassed => lastOutcome = TRUE)
  /\ (testPc = "loop" => ~mpu6500SelfTestPassed /\ attempts < SELF_TEST_ATTEMPTS)
  /\ (testPc \in {"mag", "baro", "done"} =>
        mpu6500SelfTestPassed \/ attempts = SELF_TEST_ATTEMPTS)

C12_Step ==
  attempts' # attempts =>
    /\ ~mpu6500SelfTestPassed
    /\ attempts' = attempts + 1
    /\ delays' = (IF lastOutcome' = TRUE THEN delays ELSE delays + 1)
    /\ (lastOutcome' = TRUE => testPc' # "loop")

C12_BoundedRetryTerminates ==
  /\ <>(testPc = "done")
  /\ []C12_Counts
  /\ [][C12_Step]_vars

\* the primary passes on the last attempt the loop allows
C12_Witness ==
  /\ testPc = "done"
  /\ mpu6500SelfTestPassed
  /\ attempts = SELF_TEST_ATTEMPTS
  /\ delays = SELF_TEST_ATTEMPTS - 1

\* C13 as stated: each auxiliary self-test is invoked exactly once when its
\* device is present and not at all otherwise, whatever the primary and the
\* other auxiliary device did
C13_AuxExactlyOnceIfPresent ==
  testPc = "done" =>
    /\ magCalls = (IF isMagnetometerPresent THEN 1 ELSE 0)
    /\ baroCalls = (IF isBarometerPresent THEN 1 ELSE 0)

\* C13 amended: each auxiliary self-test is invoked at most once, and it is
\* invoked exactly when its device is present and everything before it
\* passed: ak8963SelfTest iff init-ok, primary pass and magnetometer
\* present; lps25hSelfTest iff the magnetometer test ran and passed and the
\* barometer is present
C13_AuxOnceWhileStillPassing ==
  /\ magCalls <= 1
  /\ baroCalls <= 1
  /\ (testPc \in {"baro", "done"} =>
        (magCalls = 1 <=>
           isInit /\ mpu6500SelfTestPassed /\ isMagnetometerPresent))
  /\ (testPc = "done" =>
        (baroCalls = 1 <=> magCalls = 1 /\ MagPass /\ isBarometerPresent))

\* both devices present, the primary never passed, no auxiliary test ran
C13_Witness ==
  /\ testPc = "done"
  /\ isMagnetometerPresent
  /\ isBarometerPresent
  /\ ~mpu6500SelfTestPassed
  /\ magCalls = 0
  /\ baroCalls = 0

\* C14: after sensorsTest() returns each exposed pass flag equals the
\* outcome of that device's self-test in the call; the MPU6500 flag is false
\* when all 300 primary attempts failed
C14_FlagsEqualOutcomes ==
  testPc = "done" =>
    /\ isMpu6500TestPassed = mpu6500SelfTestPassed
    /\ (magCalls = 1 => isAK8963TestPassed = MagPass)
    /\ (baroCalls = 1 => isLPS25HTestPassed = BaroPass)

(***************************************************************************)
(* The decoders alone: the body of the acquisition loop, frame after frame *)
(***************************************************************************)
MaxDecFrames == 3

\* status with and without the data-ready bit (bit 0), with and without the
\* overrun bit (bit 1)
MagBlocks ==
  { MagBlock(1, 100, -200, 300),
    MagBlock(0, 7, 8, 9),
    MagBlock(2, -1, 5, 6),
    MagBlock(3, -32768, 32767, -1) }

\* the four combinations of P_DA (0x02) and T_DA (0x01); 48 has only the
\* two overrun bits set
BaroBlocks ==
  { BaroBlock(48, 4100002, 1999),
    BaroBlock(1, 4100003, -5),
    BaroBlock(2, 4100001, 2001),
    BaroBlock(3, 4100000, 2000) }

DecFrames ==
  { BusFrame(InertialBlock(0, 0, 4096, 10, -20, 30), m, b) :
      m \in MagBlocks, b \in BaroBlocks }

\* lines 144-157 for one frame
DecodeFrame ==
  /\ framesProcessed < MaxDecFrames
  /\ \E data \in DecFrames : AcquireAndDecode(data)
  /\ UNCHANGED <<flagVars, taskVars, readerVars, testVars, baseFrame, deviations>>

NextDec == DecodeFrame

SpecDec == Init /\ [][NextDec]_vars

\* the little-endian int16_t at the 0-based index i of buf
LE16(buf, i) == ToInt16(buf[i + 2] * 256 + buf[i + 1])

\* C15: when the data-ready bit of the magnetometer status byte is 0 the
\* decoder leaves sensors.mag exactly as it was after the previous frame,
\* whatever the other bytes of the block hold; when it is 1 all three axes
\* are replaced by the decode of bytes 1..6
C15_Step ==
  (framesProcessed' # framesProcessed /\ isMagnetometerPresent) =>
    IF buffer'[15] % 2 = 1
    THEN sensors'.mag = [x |-> LE16(buffer', 15), y |-> LE16(buffer', 17),
                         z |-> LE16(buffer', 19)]
    ELSE sensors'.mag = sensors.mag

C15_MagFrameEffect == [][C15_Step]_vars

\* a frame without data-ready carrying other words, after a decoded frame
C15_Witness ==
  /\ isMagnetometerPresent
  /\ framesProcessed >= 2
  /\ buffer[15] = 2
  /\ sensors.mag = [x |-> 100, y |-> -200, z |-> 300]
  /\ LE16(buffer, 15) = -1

\* C16: the raw pressure is replaced by the 24-bit little-endian value of
\* bytes 1..3 exactly when status bit 0x02 is set and the raw temperature by
\* the 16-bit value of bytes 4..5 exactly when bit 0x01 is set; a field whose
\* bit is clear keeps its previous value, and neither bit touches the other
\* field
C16_Step ==
  (framesProcessed' # framesProcessed /\ isBarometerPresent) =>
    LET o == IF isMagnetometerPresent THEN 22 ELSE 14
        st == buffer'[o + 1]
    IN /\ rawPressure' = IF (st \div 2) % 2 = 1
                         THEN buffer'[o + 2] + (256 * buffer'[o + 3])
                              + (65536 * buffer'[o + 4])
                         ELSE rawPressure
       /\ rawTemp' = IF st % 2 = 1 THEN LE16(buffer', o + 4) ELSE rawTemp
       /\ sensors'.baro.pressure = rawPressure'
       /\ sensors'.baro.temperature = rawTemp'

C16_BaroFrameEffect == [][C16_Step]_vars

\* a temperature-only frame after a pressure-only frame
C16_Witness ==
  /\ isBarometerPresent
  /\ framesProcessed >= 2
  /\ buffer[BaroOffset + 1] = 1
  /\ rawPressure = 4100001
  /\ rawTemp = -5

\* C17: the bus read is 14 bytes plus 8 for a present magnetometer plus 6
\* for a present barometer; the magnetometer block is decoded from offset 14
\* and the barometer block from offset 22 with a magnetometer and 14 without;
\* every byte a decoder reads lies inside the bytes read in that cycle and
\* inside the 28-byte buffer
C17_ReadLengthAndOffsets ==
  framesProcessed > 0 =>
    /\ Len(buffer) = 28
    /\ busRead.len = (CASE isMagnetometerPresent /\ isBarometerPresent -> 28
                         [] isMagnetometerPresent /\ ~isBarometerPresent -> 22
                         [] ~isMagnetometerPresent /\ isBarometerPresent -> 20
                         [] OTHER -> 14)
    /\ (isMagnetometerPresent =>
          busRead.magOff = 14 /\ 14 \in busRead.accessed)
    /\ (isBarometerPresent =>
          /\ busRead.baroOff = (IF isMagnetometerPresent THEN 22 ELSE 14)
          /\ busRead.baroOff \in busRead.accessed)
    /\ \A i \in busRead.accessed :
          0 <= i /\ i < busRead.len /\ i < Len(buffer)

\* a barometer without a magnetometer: the last byte of the 20 is decoded
C17_Witness ==
  /\ ~isMagnetometerPresent
  /\ isBarometerPresent
  /\ busRead.len = 20
  /\ 19 \in busRead.accessed

(***************************************************************************)
(* Claims about the Event Signal and the stale publishes                   *)
(***************************************************************************)
\* C18: under weak fairness of the acquisition task every posting of the
\* signal, also one made while the task is in a cycle or inside the publish
\* critical section, is followed by a complete cycle (bus read, decode,
\* publish) whose take came after that posting; and the loop always comes
\* back to the take
C18_EveryPostingServed ==
  /\ \A n \in 1..MaxInterrupts : (interrupts = n) ~> (signal.servedUpTo >= n)
  /\ (taskPc # "take") ~> (taskPc = "take")

\* the last posting came inside the critical section and a later cycle is
\* complete
C18_Witness ==
  /\ signal.postedAt = "critical"
  /\ interrupts >= 2
  /\ signal.servedUpTo = interrupts
  /\ published = cycle
  /\ taskPc = "take"

\* C19: the Event Signal is binary: at most one signal is pending, a posting
\* while one is pending is coalesced with it, the task starts a cycle only
\* by consuming a pending signal, so the cycles started never exceed the
\* interrupts fired
C19_Inv ==
  /\ sensorsDataReady \in {0, 1}
  /\ cycle + sensorsDataReady + signal.coalesced = interrupts
  /\ cycle <= interrupts

C19_Step ==
  /\ (cycle' # cycle =>
        sensorsDataReady = 1 /\ sensorsDataReady' = 0 /\ cycle' = cycle + 1)
  /\ (interrupts' # interrupts =>
        sensorsDataReady' = 1 /\ cycle' = cycle)

C19_BinarySignal == []C19_Inv /\ [][C19_Step]_vars

\* two postings were coalesced and everything pending has been consumed
C19_Witness ==
  /\ signal.coalesced >= 1
  /\ sensorsDataReady = 0
  /\ cycle >= 1
  /\ cycle < interrupts

\* C20: when the magnetometer (barometer) is present every cycle overwrites
\* its channel, also when the data-ready bit (both update bits) of the frame
\* is clear, and the value is then the one published by the previous cycle;
\* a sensorsReadMag (sensorsReadBaro) after the cycle returns true with it
C20_Step ==
  /\ (taskPc = "mag" /\ taskPc' = "baro" /\ isMagnetometerPresent =>
        /\ queue'["magnetometerDataQueue"] = <<[val |-> sensors.mag, cycle |-> cycle]>>
        /\ (buffer[15] % 2 = 0 /\ pubCount["magnetometerDataQueue"] > 0 =>
              sensors.mag = lastPub["magnetometerDataQueue"].val))
  /\ (taskPc = "baro" /\ taskPc' = "resume" /\ isBarometerPresent =>
        /\ queue'["barometerDataQueue"] = <<[val |-> sensors.baro, cycle |-> cycle]>>
        /\ (buffer[BaroOffset + 1] % 4 = 0 /\ pubCount["barometerDataQueue"] > 0 =>
              sensors.baro = lastPub["barometerDataQueue"].val))
  /\ (readerPc = "mag" /\ readerPc' = "baro" /\ queue["magnetometerDataQueue"] # <<>> =>
        /\ rd'["magnetometerDataQueue"].ok
        /\ readerSensors'.mag = queue["magnetometerDataQueue"][1].val)
  /\ (readerPc = "baro" /\ readerPc' = "idle" /\ queue["barometerDataQueue"] # <<>> =>
        /\ rd'["barometerDataQueue"].ok
        /\ readerSensors'.baro = queue["barometerDataQueue"][1].val)

C20_StaleValueRepublished == [][C20_Step]_vars

\* the second cycle had no new magnetometer and barometer data; the reader
\* then received the values the first cycle decoded, published by the second
C20_Witness ==
  /\ isMagnetometerPresent
  /\ isBarometerPresent
  /\ cycle = 2
  /\ buffer[15] % 2 = 0
  /\ buffer[BaroOffset + 1] % 4 = 0
  /\ rd["magnetometerDataQueue"].ok
  /\ rd["magnetometerDataQueue"].val = [val |-> [x |-> 100, y |-> -200, z |-> 300], cycle |-> 2]
  /\ rd["barometerDataQueue"].ok
  /\ rd["barometerDataQueue"].val.cycle = 2
  /\ rd["barometerDataQueue"].val.val.pressure = 4100000

====
